---- MODULE Spec2Model ----
(***************************************************************************)
(* NeerVaani, assistant for farmers: the client-side request/response      *)
(* lifecycle of its three view components                                  *)
(*   ConversationalAgent (chat with text-to-speech),                       *)
(*   CurrentCropAgent    (crop list, three advisory actions),              *)
(*   MarketAnalysisTool  (one form, one result),                           *)
(* and the post-harvest flow's input/output schemas.                       *)
(*                                                                         *)
(* A step of the model is one browser task: an event handler run up to     *)
(* its first await, or the continuation of a handler after an awaited      *)
(* promise settled.  React commits the state updates of a task before the  *)
(* next task runs, so a handler reads the state of the latest render,      *)
(* while a continuation still reads the values its closure captured.       *)
(* Strings are sequences of one-character strings.                         *)
(***************************************************************************)
EXTENDS Integers, Sequences, FiniteSets, TLC

\* ------------------------------------------------------------------ bounds
MaxTurns == 2        \* chat submissions per behaviour
MaxClips == 2        \* Audio elements created per behaviour
MaxTts == 2          \* speaker-button text-to-speech calls in flight
MaxRemote == 2       \* endpoint calls of the flow called on its own
MaxCrops == 2        \* crops in the record store
MaxSubmits == 2      \* accepted submissions of the market analysis form
MaxInFlight == 2     \* concurrent handler runs, handlers called directly
MaxDirect == 2       \* direct calls of the handlers per behaviour

Null == 0            \* null: no Audio element
MinQueryLen == 5     \* onQuerySubmit: query.trim().length < 5

VARIABLES
    mounted,         \* the component this page session shows
    unhandled,       \* rejections that left a handler uncaught
    \* ---- ConversationalAgent (src/unnamed/part_001)
    messages, input, loading, currentAudio, isPlaying,
    clipState,       \* Audio element -> "idle" | "playing" | "stopped" | "ended"
    events,          \* media events queued for the handlers of speak()
    chatCall,        \* the pending startChat call, with its handler's closure
    ttsSubmit,       \* the textToSpeech call of handleSubmit's speak() is pending
    ttsClick,        \* pending textToSpeech calls of speaker-button clicks
    \* ---- CurrentCropAgent (src/src/components/dashboard/current-crop-agent.tsx)
    isAddingCrop, crops, loadingCrops, loadingResponse,
    agentResponse, marketAnalysisResult, postHarvestResult,
    selectedCropId,  \* agentQueryForm's selectedCropId
    query,           \* agentQueryForm's query
    queryError,      \* agentQueryForm's manual error on query is set
    yield,           \* postHarvestYieldForm's yield
    addCropForm,     \* addCropForm's values
    isSubmitting,    \* addCropForm.formState.isSubmitting: "no", "adding", "refreshing"
    dialogOpen,      \* the post-harvest AlertDialog is open
    store,           \* ids of the crops in the record store
    mountFetch,      \* the getAllCurrentCrops call of the mount effect is pending
    flowCalls,       \* pending flow calls of the three actions, oldest first
    cropToast,       \* description of the latest toast
    lastResolved,    \* the latest successful flow result since the latest start
    overtaken,       \* a call resolved while an older one was pending
    directCalls,     \* handler runs started by a direct call
    \* ---- MarketAnalysisTool (src/src/components/neerhub/market-analysis-card.tsx)
    analysis, marketLoading, marketForm, marketCall, marketToasts,
    marketAccepted, marketIssued, marketSettled,
    \* ---- post-harvest flow called on its own
    flowInput, flowPhase, flowOutcome, remoteCalls

chatVars == <<messages, input, loading, currentAudio, isPlaying, clipState,
              events, chatCall, ttsSubmit, ttsClick>>

cropVars == <<isAddingCrop, crops, loadingCrops, loadingResponse, agentResponse,
              marketAnalysisResult, postHarvestResult, selectedCropId, query, queryError,
              yield, addCropForm, isSubmitting, dialogOpen, store, mountFetch, flowCalls,
              cropToast, lastResolved, overtaken, directCalls>>

marketVars == <<analysis, marketLoading, marketForm, marketCall, marketToasts,
                marketAccepted, marketIssued, marketSettled>>

flowVars == <<flowInput, flowPhase, flowOutcome, remoteCalls>>

vars == <<mounted, unhandled, chatVars, cropVars, marketVars, flowVars>>

\* ------------------------------------------------------------------ strings
IsSpace(c) == c = " "

RECURSIVE TrimStart(_)
TrimStart(s) == IF s # <<>> /\ IsSpace(Head(s)) THEN TrimStart(Tail(s)) ELSE s

RECURSIVE TrimEnd(_)
TrimEnd(s) ==
    IF s # <<>> /\ IsSpace(s[Len(s)]) THEN TrimEnd(SubSeq(s, 1, Len(s) - 1)) ELSE s

\* String.prototype.trim
Trim(s) == TrimEnd(TrimStart(s))

\* ------------------------------------------------------------------ chat
ChatInputs == { <<>>, <<" ">>, <<" ", "q", " ">> }
ChatReplies == { <<"r">>, <<" ">> }
ApologyText ==
    <<"S","o","r","r","y",","," ","I"," ","e","n","c","o","u","n","t","e","r","e","d",
      " ","a","n"," ","e","r","r","o","r","."," ","P","l","e","a","s","e"," ","t","r","y",
      " ","a","g","a","i","n",".">>
AudioDataUris == { "", "data:audio" }

Clips == 1 .. MaxClips
ClipsMade == { c \in Clips : clipState[c] # "none" }
Playing == { c \in Clips : clipState[c] = "playing" }

Message(role, content) == [role |-> role, content |-> content]

\* HTMLMediaElement.pause(): a playing element stops and its pause event is queued
Pause(c, cs, ev) ==
    IF cs[c] = "playing"
    THEN [clipState |-> [cs EXCEPT ![c] = "stopped"], events |-> Append(ev, <<"pause", c>>)]
    ELSE [clipState |-> cs, events |-> ev]

\* stopCurrentAudio, run with the value of currentAudio its closure holds
StopCurrentAudio(closureAudio, a) ==
    IF closureAudio # Null
    THEN LET p == Pause(closureAudio, a.clipState, a.events)
         IN  [currentAudio |-> Null, isPlaying |-> FALSE,
              clipState |-> p.clipState, events |-> p.events]
    ELSE a

AudioNow ==
    [currentAudio |-> currentAudio, isPlaying |-> isPlaying,
     clipState |-> clipState, events |-> events]

SetAudio(a) ==
    /\ currentAudio' = a.currentAudio
    /\ isPlaying' = a.isPlaying
    /\ clipState' = a.clipState
    /\ events' = a.events

\* as HistoryArg, without the slice
HistoryArgUnsliced(msgs, userMessage) == Append(msgs, userMessage)

\* handleSubmit: history.slice(0, -1) of [...messages, userMessage]
HistoryArg(msgs, userMessage) ==
    LET history == Append(msgs, userMessage)
    IN  SubSeq(history, 1, Len(history) - 1)

\* an Audio element is left for every textToSpeech call in flight and one more
ClipBudget ==
    Cardinality(ClipsMade) + ttsClick + (IF ttsSubmit \/ chatCall # <<>> THEN 1 ELSE 0)
        < MaxClips

\* as HandleSubmitReturns, without `|| loading`
HandleSubmitReturnsBlankOnly == Trim(input) = <<>>

\* handleSubmit: if (!input.trim() || loading) return
HandleSubmitReturns == Trim(input) = <<>> \/ loading

\* handleSubmit up to its await of startChat; the form's submit event and the
\* textarea's Enter key both call it, whatever the send button's disabled state
HandleSubmit ==
    /\ mounted = "chat"
    /\ IF HandleSubmitReturns
       THEN UNCHANGED vars
       ELSE /\ Len(messages) < 2 * MaxTurns
            /\ ClipBudget
            /\ LET userMessage == Message("user", input)
               IN  /\ messages' = Append(messages, userMessage)
                   /\ chatCall' = Append(chatCall,
                                         [query |-> input,
                                          history |-> HistoryArg(messages, userMessage),
                                          closureAudio |-> currentAudio])
            /\ input' = <<>>
            /\ loading' = TRUE
            /\ SetAudio(StopCurrentAudio(currentAudio, AudioNow))
            /\ UNCHANGED <<cropVars, marketVars, flowVars, mounted, unhandled, ttsSubmit,
                           ttsClick>>

\* startChat resolved: the reply is appended and speak(response, true) runs up
\* to its await of textToSpeech, with the closure of the render handleSubmit ran in
StartChatResolved ==
    /\ chatCall # <<>>
    /\ \E response \in ChatReplies :
        /\ messages' = Append(messages, Message("model", response))
        /\ SetAudio(StopCurrentAudio(chatCall[1].closureAudio, AudioNow))
        /\ IF Trim(response) = <<>>
           THEN loading' = FALSE /\ ttsSubmit' = FALSE
           ELSE loading' = loading /\ ttsSubmit' = TRUE
    /\ chatCall' = Tail(chatCall)
    /\ UNCHANGED <<cropVars, marketVars, flowVars, mounted, unhandled, input, ttsClick>>

\* as StartChatRejected, with try/finally and no catch block
StartChatRejectedUncaught ==
    /\ chatCall # <<>>
    /\ unhandled' = unhandled + 1
    /\ loading' = FALSE
    /\ chatCall' = Tail(chatCall)
    /\ UNCHANGED <<cropVars, marketVars, flowVars, mounted, messages, input, currentAudio,
                   isPlaying, clipState, events, ttsSubmit, ttsClick>>

\* as StartChatRejected, with a catch block that appends no message
StartChatRejectedSilent ==
    /\ chatCall # <<>>
    /\ loading' = FALSE
    /\ chatCall' = Tail(chatCall)
    /\ UNCHANGED <<cropVars, marketVars, flowVars, mounted, unhandled, messages, input,
                   currentAudio, isPlaying, clipState, events, ttsSubmit, ttsClick>>

\* as StartChatRejected, with the apology put in the place of the user's message
StartChatRejectedReplacing ==
    /\ chatCall # <<>>
    /\ messages' = Append(SubSeq(messages, 1, Len(messages) - 1),
                          Message("model", ApologyText))
    /\ loading' = FALSE
    /\ chatCall' = Tail(chatCall)
    /\ UNCHANGED <<cropVars, marketVars, flowVars, mounted, unhandled, input, currentAudio,
                   isPlaying, clipState, events, ttsSubmit, ttsClick>>

\* startChat rejected: catch, then finally
StartChatRejected ==
    /\ chatCall # <<>>
    /\ messages' = Append(messages, Message("model", ApologyText))
    /\ loading' = FALSE
    /\ chatCall' = Tail(chatCall)
    /\ UNCHANGED <<cropVars, marketVars, flowVars, mounted, unhandled, input, currentAudio, isPlaying, clipState,
                   events, ttsSubmit, ttsClick>>

\* the speaker button of a model message: speak(message.content, true) up to its await
SpeakClick ==
    /\ mounted = "chat"
    /\ \E i \in 1 .. Len(messages) :
        /\ messages[i].role = "model"
        /\ SetAudio(StopCurrentAudio(currentAudio, AudioNow))
        /\ IF Trim(messages[i].content) = <<>>
           THEN ttsClick' = ttsClick
           ELSE /\ ttsClick < MaxTts
                /\ ClipBudget
                /\ ttsClick' = ttsClick + 1
    /\ UNCHANGED <<cropVars, marketVars, flowVars, mounted, unhandled, messages, input, loading, chatCall, ttsSubmit>>

\* speak after textToSpeech resolved: new Audio, setCurrentAudio, play()
SpeakResolved(a, audioDataUri, playAllowed) ==
    IF audioDataUri # ""
    THEN LET audio == CHOOSE c \in Clips : a.clipState[c] = "none"
         IN  IF playAllowed
             THEN [a EXCEPT !.currentAudio = audio,
                            !.clipState = [a.clipState EXCEPT ![audio] = "playing"],
                            !.events = Append(a.events, <<"play", audio>>)]
             ELSE [a EXCEPT !.currentAudio = audio,
                            !.clipState = [a.clipState EXCEPT ![audio] = "idle"]]
    ELSE a

TtsResolved ==
    \E origin \in {"submit", "click"}, audioDataUri \in AudioDataUris, playAllowed \in BOOLEAN :
        /\ IF origin = "submit" THEN ttsSubmit ELSE ttsClick > 0
        /\ \E c \in Clips : clipState[c] = "none"
        /\ SetAudio(SpeakResolved(AudioNow, audioDataUri, playAllowed))
        /\ IF origin = "submit"
           THEN ttsSubmit' = FALSE /\ loading' = FALSE /\ ttsClick' = ttsClick
           ELSE ttsClick' = ttsClick - 1 /\ UNCHANGED <<ttsSubmit, loading>>
        /\ UNCHANGED <<cropVars, marketVars, flowVars, mounted, unhandled, messages, input, chatCall>>

\* as TtsRejected, with the failure of handleSubmit's speak reaching handleSubmit's catch
TtsRejectedApologising ==
    \E origin \in {"submit", "click"} :
        /\ IF origin = "submit" THEN ttsSubmit ELSE ttsClick > 0
        /\ IF origin = "submit"
           THEN /\ ttsSubmit' = FALSE /\ loading' = FALSE /\ ttsClick' = ttsClick
                /\ messages' = Append(messages, Message("model", ApologyText))
           ELSE ttsClick' = ttsClick - 1 /\ UNCHANGED <<ttsSubmit, loading, messages>>
        /\ UNCHANGED <<cropVars, marketVars, flowVars, mounted, unhandled, input, chatCall, currentAudio,
                       isPlaying, clipState, events>>

\* speak's catch; for handleSubmit's speak, handleSubmit's finally follows
TtsRejected ==
    \E origin \in {"submit", "click"} :
        /\ IF origin = "submit" THEN ttsSubmit ELSE ttsClick > 0
        /\ IF origin = "submit"
           THEN ttsSubmit' = FALSE /\ loading' = FALSE /\ ttsClick' = ttsClick
           ELSE ttsClick' = ttsClick - 1 /\ UNCHANGED <<ttsSubmit, loading>>
        /\ UNCHANGED <<cropVars, marketVars, flowVars, mounted, unhandled, messages, input, chatCall, currentAudio,
                       isPlaying, clipState, events>>

\* the stop button, rendered when isPlaying
StopClick ==
    /\ mounted = "chat"
    /\ isPlaying
    /\ SetAudio(StopCurrentAudio(currentAudio, AudioNow))
    /\ UNCHANGED <<cropVars, marketVars, flowVars, mounted, unhandled, messages, input, loading, chatCall, ttsSubmit,
                   ttsClick>>

\* the textarea's onChange and the speech-to-text transcript: setInput(text)
SetInput ==
    /\ mounted = "chat"
    /\ \E text \in ChatInputs : input' = text /\ text # input
    /\ UNCHANGED <<cropVars, marketVars, flowVars, mounted, unhandled, messages, loading, currentAudio, isPlaying,
                   clipState, events, chatCall, ttsSubmit, ttsClick>>

\* a playing clip reaches its end
ClipEnds ==
    \E c \in Playing :
        /\ clipState' = [clipState EXCEPT ![c] = "ended"]
        /\ events' = Append(events, <<"ended", c>>)
        /\ UNCHANGED <<cropVars, marketVars, flowVars, mounted, unhandled, messages, input, loading, currentAudio,
                       isPlaying, chatCall, ttsSubmit, ttsClick>>

\* audio.onplay, audio.onpause, audio.onended
MediaEvent ==
    /\ events # <<>>
    /\ events' = Tail(events)
    /\ LET kind == Head(events)[1]
       IN  /\ isPlaying' = (kind = "play")
           /\ currentAudio' = IF kind = "ended" THEN Null ELSE currentAudio
    /\ UNCHANGED <<cropVars, marketVars, flowVars, mounted, unhandled, messages, input, loading, clipState, chatCall,
                   ttsSubmit, ttsClick>>

\* ------------------------------------------------------------------ schemas
\* A JSON value is known by its kind; an object is a function from keys to kinds.
Kinds == {"missing", "null", "number", "empty", "text"}

\* z.string()
ZString(v) == v \in {"empty", "text"}
\* z.string().optional()
ZStringOptional(v) == v = "missing" \/ ZString(v)

RequiredCropKeys == {"id", "cropName", "fieldSize", "location", "sowingDate"}
CropKeys == RequiredCropKeys \cup {"additionalInfo"}

\* as CurrentCropContextSchema, with sowingDate optional
CurrentCropContextSchemaLax(c) ==
    /\ ZString(c["id"])
    /\ ZString(c["cropName"])
    /\ ZString(c["fieldSize"])
    /\ ZString(c["location"])
    /\ ZStringOptional(c["sowingDate"])
    /\ ZStringOptional(c["additionalInfo"])

CurrentCropContextSchema(c) ==
    /\ ZString(c["id"])
    /\ ZString(c["cropName"])
    /\ ZString(c["fieldSize"])
    /\ ZString(c["location"])
    /\ ZString(c["sowingDate"])
    /\ ZStringOptional(c["additionalInfo"])

PostHarvestInputSchema(in) ==
    /\ CurrentCropContextSchema(in.cropContext)
    /\ ZStringOptional(in.estimatedYield)
    /\ ZStringOptional(in.language)

AdviceKeys ==
    {"storageRecommendations", "transportationOptions", "marketLinkages",
     "valueAdditionOpportunities", "pricingStrategy", "qualityControlMeasures",
     "postHarvestHandling", "wasteManagement"}

Field(obj, k) == IF k \in DOMAIN obj THEN obj[k] ELSE "missing"

\* as PostHarvestOutputSchema, with marketLinkages left out
PostHarvestOutputSchemaLax(out) ==
    /\ ZString(Field(out, "storageRecommendations"))
    /\ ZString(Field(out, "transportationOptions"))
    /\ ZString(Field(out, "valueAdditionOpportunities"))
    /\ ZString(Field(out, "pricingStrategy"))
    /\ ZString(Field(out, "qualityControlMeasures"))
    /\ ZString(Field(out, "postHarvestHandling"))
    /\ ZString(Field(out, "wasteManagement"))

PostHarvestOutputSchema(out) ==
    /\ ZString(Field(out, "storageRecommendations"))
    /\ ZString(Field(out, "transportationOptions"))
    /\ ZString(Field(out, "marketLinkages"))
    /\ ZString(Field(out, "valueAdditionOpportunities"))
    /\ ZString(Field(out, "pricingStrategy"))
    /\ ZString(Field(out, "qualityControlMeasures"))
    /\ ZString(Field(out, "postHarvestHandling"))
    /\ ZString(Field(out, "wasteManagement"))

\* z.object(...).parse: the declared keys are kept, unknown keys are stripped
PostHarvestOutputParse(out) == [k \in AdviceKeys \cap DOMAIN out |-> out[k]]

\* ------------------------------------------------------------------ flow
ValidCrop == [k \in CropKeys |-> "text"]
GoodAdvice == [k \in AdviceKeys |-> "text"]

\* a crop context lacking the required keys of `lacking`
CropLacking(lacking, info) ==
    [k \in CropKeys |-> IF k \in lacking THEN "missing"
                        ELSE IF k = "additionalInfo" THEN info ELSE "text"]

FlowInputs ==
    { [cropContext |-> CropLacking(l, i), estimatedYield |-> y, language |-> "text"] :
        l \in SUBSET RequiredCropKeys, i \in {"missing", "text"},
        y \in {"missing", "empty", "text"} }
    \cup
    { [cropContext |-> [ValidCrop EXCEPT ![k] = v], estimatedYield |-> "text",
       language |-> "text"] :
        k \in RequiredCropKeys, v \in {"null", "number", "empty"} }

\* the replies of the generative endpoint: one advice key off, or an unknown key more
FlowReplies ==
    { [GoodAdvice EXCEPT ![k] = v] : k \in AdviceKeys, v \in {"null", "number", "empty", "text"} }
    \cup { [k \in AdviceKeys \ {m} |-> "text"] : m \in AdviceKeys }
    \cup { [k \in AdviceKeys \cup {"extra"} |-> "text"] }

\* getPostHarvestAdvice: the input is validated, then the endpoint is called
FlowInvoke ==
    /\ mounted = "flow"
    /\ flowPhase # "remote"
    /\ remoteCalls < MaxRemote
    /\ \E in \in FlowInputs :
        /\ flowInput' = <<in>>
        /\ IF PostHarvestInputSchema(in)
           THEN /\ flowPhase' = "remote"
                /\ flowOutcome' = <<>>
                /\ remoteCalls' = remoteCalls + 1
           ELSE /\ flowPhase' = "done"
                /\ flowOutcome' = <<"ValidationError">>
                /\ remoteCalls' = remoteCalls
    /\ UNCHANGED <<chatVars, cropVars, marketVars, mounted, unhandled>>

\* the endpoint replied: the reply is parsed against the output schema
FlowReplied ==
    /\ flowPhase = "remote"
    /\ \E out \in FlowReplies :
        flowOutcome' = IF PostHarvestOutputSchema(out)
                       THEN <<"ok", PostHarvestOutputParse(out)>>
                       ELSE <<"ResponseShapeError">>
    /\ flowPhase' = "done"
    /\ UNCHANGED <<chatVars, cropVars, marketVars, mounted, unhandled, flowInput, remoteCalls>>

\* the network call failed
FlowFailed ==
    /\ flowPhase = "remote"
    /\ flowOutcome' = <<"RemoteError">>
    /\ flowPhase' = "done"
    /\ UNCHANGED <<chatVars, cropVars, marketVars, mounted, unhandled, flowInput, remoteCalls>>

FlowInit ==
    /\ flowInput = <<>>
    /\ flowPhase = "idle"
    /\ flowOutcome = <<>>
    /\ remoteCalls = 0

\* ------------------------------------------------------------------ crops
EmptyId == 0         \* selectedCropId '': no crop selected
CropIds == 1 .. MaxCrops

QueryInputs == { <<>>, <<" ", "w", "h", "e", "n", " ">>, <<"w", "h", "e", "n", "?">> }
YieldInputs == { <<>>, <<"1", "0", "t">> }

DefaultCropForm == [cropName |-> <<>>, fieldSize |-> <<>>, location |-> <<>>, sowingDate |-> FALSE]
FilledCropForm ==
    [cropName |-> <<"R", "i">>, fieldSize |-> <<"2">>, location |-> <<"P", "u">>,
     sowingDate |-> TRUE]
ShortCropForm == [FilledCropForm EXCEPT !.cropName = <<"R">>]
CropForms == {DefaultCropForm, FilledCropForm, ShortCropForm}

\* addCropFormSchema
AddCropFormSchema(v) ==
    /\ Len(v.cropName) >= 2
    /\ Len(v.fieldSize) >= 1
    /\ Len(v.location) >= 2
    /\ v.sowingDate

\* postHarvestYieldSchema
PostHarvestYieldSchema(y) == Len(y) >= 1

RECURSIVE Perms(_)
Perms(S) ==
    IF S = {} THEN { <<>> }
    ELSE UNION { { <<x>> \o p : p \in Perms(S \ {x}) } : x \in S }

SeqSet(q) == { q[i] : i \in 1 .. Len(q) }
RemoveAt(q, i) == SubSeq(q, 1, i - 1) \o SubSeq(q, i + 1, Len(q))

NoResult == <<>>

\* the replies the three flows' endpoints give; the flow client returns a reply
\* that passes the flow's output schema and rejects any other
AgentReplies == {"advice", "malformed"}
MarketReplies == {"analysis", "malformed"}
AdviceReplies ==
    { GoodAdvice, [GoodAdvice EXCEPT !["wasteManagement"] = "empty"],
      [GoodAdvice EXCEPT !["pricingStrategy"] = "null"],
      [k \in AdviceKeys \ {"marketLinkages"} |-> "text"] }
RepliesOf(kind) ==
    CASE kind = "agent" -> AgentReplies
      [] kind = "market" -> MarketReplies
      [] kind = "postHarvest" -> AdviceReplies
OutputValid(kind, reply) ==
    CASE kind = "agent" -> reply = "advice"
      [] kind = "market" -> reply = "analysis"
      [] kind = "postHarvest" -> PostHarvestOutputSchema(reply)

\* an open AlertDialog is modal: it takes every click outside it
DialogModal == ~dialogOpen

\* the controls of the query view are rendered when the add-crop form is not
QueryViewActive == mounted = "crop" /\ ~isAddingCrop /\ DialogModal

\* as ActionDisabled, without loadingResponse
ActionDisabledNoLoading == Len(crops) = 0

\* disabled={loadingResponse || crops.length === 0}
ActionDisabled == loadingResponse \/ Len(crops) = 0

\* getSelectedCrop: the selected crop's id, or EmptyId (null) with a toast
GetSelectedCrop ==
    IF \E i \in 1 .. Len(crops) : crops[i] = selectedCropId
    THEN selectedCropId
    ELSE EmptyId

SelectCropFirst ==
    /\ cropToast' = "Please select a crop first."
    /\ UNCHANGED <<loadingResponse, agentResponse, marketAnalysisResult, postHarvestResult,
                   flowCalls, lastResolved, overtaken>>

\* as ClearResults, clearing the agent's slot only
ClearResultsAgentOnly ==
    /\ agentResponse' = NoResult
    /\ UNCHANGED <<marketAnalysisResult, postHarvestResult>>

\* clearResults
ClearResults ==
    /\ agentResponse' = NoResult
    /\ marketAnalysisResult' = NoResult
    /\ postHarvestResult' = NoResult

\* setLoadingResponse(true); clearResults(); then the awaited flow call
CallFlow(kind, selectedCrop) ==
    /\ loadingResponse' = TRUE
    /\ ClearResults
    /\ flowCalls' = Append(flowCalls, [kind |-> kind, crop |-> selectedCrop])
    /\ lastResolved' = <<>>
    /\ overtaken' = (overtaken /\ flowCalls # <<>>)
    /\ cropToast' = cropToast

\* as OnQuerySubmit, with clearResults() called before the query is checked
OnQuerySubmitClearsFirst ==
    LET selectedCrop == GetSelectedCrop
    IN  IF selectedCrop = EmptyId
        THEN SelectCropFirst /\ queryError' = queryError
        ELSE IF query = <<>> \/ Len(Trim(query)) < MinQueryLen
        THEN /\ queryError' = TRUE
             /\ ClearResults
             /\ UNCHANGED <<loadingResponse, flowCalls, lastResolved, overtaken, cropToast>>
        ELSE CallFlow("agent", selectedCrop) /\ queryError' = queryError

\* onQuerySubmit up to its await
OnQuerySubmit ==
    LET selectedCrop == GetSelectedCrop
    IN  IF selectedCrop = EmptyId
        THEN SelectCropFirst /\ queryError' = queryError
        ELSE IF query = <<>> \/ Len(Trim(query)) < MinQueryLen
        THEN /\ queryError' = TRUE
             /\ UNCHANGED <<loadingResponse, agentResponse, marketAnalysisResult,
                            postHarvestResult, flowCalls,
                            lastResolved, overtaken, cropToast>>
        ELSE CallFlow("agent", selectedCrop) /\ queryError' = queryError

\* handleMarketAnalysis up to its await
HandleMarketAnalysis ==
    LET selectedCrop == GetSelectedCrop
    IN  /\ IF selectedCrop = EmptyId
           THEN SelectCropFirst
           ELSE CallFlow("market", selectedCrop)
        /\ queryError' = queryError

\* handlePostHarvestHelp up to its await
HandlePostHarvestHelp ==
    LET selectedCrop == GetSelectedCrop
    IN  /\ IF selectedCrop = EmptyId
           THEN SelectCropFirst
           ELSE CallFlow("postHarvest", selectedCrop)
        /\ queryError' = queryError

CropFrame ==
    UNCHANGED <<chatVars, marketVars, flowVars, mounted, unhandled, isAddingCrop, crops,
                loadingCrops, selectedCropId, query, yield, addCropForm, isSubmitting,
                store, mountFetch>>

\* the Ask Agent button
AskAgentClick ==
    /\ QueryViewActive /\ ~ActionDisabled
    /\ OnQuerySubmit
    /\ dialogOpen' = dialogOpen
    /\ directCalls' = directCalls
    /\ CropFrame

\* the Get Market Analysis button
MarketAnalysisClick ==
    /\ QueryViewActive /\ ~ActionDisabled
    /\ HandleMarketAnalysis
    /\ dialogOpen' = dialogOpen
    /\ directCalls' = directCalls
    /\ CropFrame

\* the Get Post-Harvest Help button opens the AlertDialog
PostHarvestHelpClick ==
    /\ QueryViewActive /\ ~ActionDisabled
    /\ dialogOpen' = TRUE
    /\ UNCHANGED <<loadingResponse, agentResponse, marketAnalysisResult, postHarvestResult,
                   flowCalls, lastResolved, overtaken, cropToast,
                   queryError>>
    /\ directCalls' = directCalls
    /\ CropFrame

\* the dialog's Cancel
DialogCancel ==
    /\ mounted = "crop" /\ dialogOpen
    /\ dialogOpen' = FALSE
    /\ UNCHANGED <<loadingResponse, agentResponse, marketAnalysisResult, postHarvestResult,
                   flowCalls, lastResolved, overtaken, cropToast,
                   queryError>>
    /\ directCalls' = directCalls
    /\ CropFrame

\* the dialog's Get Advice: the dialog closes and the yield form is submitted
GetAdviceClick ==
    /\ mounted = "crop" /\ dialogOpen
    /\ dialogOpen' = FALSE
    /\ IF PostHarvestYieldSchema(yield)
       THEN HandlePostHarvestHelp
       ELSE UNCHANGED <<loadingResponse, agentResponse, marketAnalysisResult,
                        postHarvestResult, flowCalls,
                        lastResolved, overtaken, cropToast, queryError>>
    /\ directCalls' = directCalls
    /\ CropFrame

\* as FlowResolved, with the response dropped when the selected crop has changed
FlowResolvedIfSelected(i, reply) ==
    LET call == flowCalls[i]
        result == [kind |-> call.kind, crop |-> call.crop,
                   body |-> IF call.kind = "postHarvest"
                            THEN PostHarvestOutputParse(reply) ELSE reply]
        keep == call.crop = selectedCropId
    IN  /\ agentResponse' = IF keep /\ call.kind = "agent" THEN <<result>> ELSE agentResponse
        /\ marketAnalysisResult' =
               IF keep /\ call.kind = "market" THEN <<result>> ELSE marketAnalysisResult
        /\ postHarvestResult' =
               IF keep /\ call.kind = "postHarvest" THEN <<result>> ELSE postHarvestResult
        /\ loadingResponse' = FALSE
        /\ lastResolved' = IF keep THEN <<result>> ELSE lastResolved
        /\ cropToast' = cropToast
        /\ unhandled' = unhandled

\* a flow call resolved: the handler sets its own result, then finally
FlowResolved(i, reply) ==
    LET call == flowCalls[i]
        result == [kind |-> call.kind, crop |-> call.crop,
                   body |-> IF call.kind = "postHarvest"
                            THEN PostHarvestOutputParse(reply) ELSE reply]
    IN  /\ agentResponse' = IF call.kind = "agent" THEN <<result>> ELSE agentResponse
        /\ marketAnalysisResult' =
               IF call.kind = "market" THEN <<result>> ELSE marketAnalysisResult
        /\ postHarvestResult' =
               IF call.kind = "postHarvest" THEN <<result>> ELSE postHarvestResult
        /\ loadingResponse' = FALSE
        /\ lastResolved' = <<result>>
        /\ cropToast' = cropToast
        /\ unhandled' = unhandled

\* the toast of the catch block of the handler of a flow
FailureToast(kind) ==
    CASE kind = "agent" -> "The agent could not process your request."
      [] kind = "market" -> "Could not fetch market analysis."
      [] kind = "postHarvest" -> "Could not fetch post-harvest advice."

\* as FlowRejected, with no finally block
FlowRejectedNoFinally(i) ==
    /\ cropToast' = FailureToast(flowCalls[i].kind)
    /\ UNCHANGED <<loadingResponse, agentResponse, marketAnalysisResult, postHarvestResult,
                   lastResolved, unhandled>>

\* a flow call rejected: catch, then finally
FlowRejected(i) ==
    /\ cropToast' = FailureToast(flowCalls[i].kind)
    /\ loadingResponse' = FALSE
    /\ UNCHANGED <<agentResponse, marketAnalysisResult, postHarvestResult, lastResolved,
                   unhandled>>

\* a pending flow call settles: the endpoint replied or the call failed
FlowSettles ==
    \E i \in 1 .. Len(flowCalls) :
        /\ \/ \E reply \in RepliesOf(flowCalls[i].kind) :
                IF OutputValid(flowCalls[i].kind, reply)
                THEN FlowResolved(i, reply)
                ELSE FlowRejected(i)
           \/ FlowRejected(i)
        /\ flowCalls' = RemoveAt(flowCalls, i)
        /\ overtaken' = (overtaken \/ i > 1)
        /\ UNCHANGED <<chatVars, marketVars, flowVars, mounted, directCalls, isAddingCrop, crops,
                       loadingCrops, selectedCropId, query, queryError, yield, addCropForm,
                       isSubmitting, dialogOpen, store, mountFetch>>

CropIdle ==
    UNCHANGED <<loadingResponse, agentResponse, marketAnalysisResult, postHarvestResult,
                flowCalls, lastResolved, overtaken, queryError,
                dialogOpen>>

\* fetchCrops up to its await
FetchCropsStart == loadingCrops' = TRUE

\* as FetchCropsResolved, with a selection the user made kept over the refresh
FetchCropsResolvedKeepsSelection(fetchedCrops) ==
    /\ crops' = fetchedCrops
    /\ selectedCropId' = IF selectedCropId # EmptyId THEN selectedCropId
                          ELSE IF Len(fetchedCrops) > 0 THEN fetchedCrops[1] ELSE EmptyId
    /\ loadingCrops' = FALSE
    /\ cropToast' = cropToast
    /\ unhandled' = unhandled

\* fetchCrops after getAllCurrentCrops resolved, then finally
FetchCropsResolved(fetchedCrops) ==
    /\ crops' = fetchedCrops
    /\ selectedCropId' = IF Len(fetchedCrops) > 0 THEN fetchedCrops[1] ELSE EmptyId
    /\ loadingCrops' = FALSE
    /\ cropToast' = cropToast
    /\ unhandled' = unhandled

\* as FetchCropsRejected, with no finally block
FetchCropsRejectedNoFinally ==
    /\ cropToast' = "Could not load your crops."
    /\ UNCHANGED <<loadingCrops, crops, selectedCropId, unhandled>>

\* as FetchCropsRejected, with the failure rethrown to onAddCropSubmit's catch
FetchCropsRejectedRethrown ==
    /\ cropToast' = "Could not add your crop."
    /\ loadingCrops' = FALSE
    /\ UNCHANGED <<crops, selectedCropId, unhandled>>

\* fetchCrops after getAllCurrentCrops rejected: catch, then finally
FetchCropsRejected ==
    /\ cropToast' = "Could not load your crops."
    /\ loadingCrops' = FALSE
    /\ UNCHANGED <<crops, selectedCropId, unhandled>>

\* a getAllCurrentCrops call settles; the one onAddCropSubmit awaits ends that handler
FetchSettles ==
    /\ \E origin \in {"mount", "add"} :
        /\ IF origin = "mount" THEN mountFetch ELSE isSubmitting = "refreshing"
        /\ mountFetch' = IF origin = "mount" THEN FALSE ELSE mountFetch
        /\ isSubmitting' = IF origin = "add" THEN "no" ELSE isSubmitting
    /\ \/ \E fetchedCrops \in Perms(store) : FetchCropsResolved(fetchedCrops)
       \/ FetchCropsRejected
    /\ CropIdle
    /\ UNCHANGED <<chatVars, marketVars, flowVars, mounted, directCalls, isAddingCrop, query, yield,
                   addCropForm, store>>

\* the add-crop form's submit: addCropForm.handleSubmit(onAddCropSubmit)
SaveCropClick ==
    /\ mounted = "crop" /\ isAddingCrop
    /\ isSubmitting = "no"
    /\ Cardinality(store) < MaxCrops
    /\ AddCropFormSchema(addCropForm)
    /\ isSubmitting' = "adding"
    /\ CropIdle
    /\ UNCHANGED <<chatVars, marketVars, flowVars, mounted, directCalls, unhandled, isAddingCrop, crops,
                   loadingCrops, selectedCropId, query, yield, addCropForm, store,
                   mountFetch, cropToast>>

\* onAddCropSubmit after addCurrentCrop resolved
AddCropResolved(newCropId) ==
    IF newCropId # EmptyId
    THEN /\ cropToast' = "Crop added successfully!"
         /\ addCropForm' = DefaultCropForm
         /\ isAddingCrop' = FALSE
         /\ FetchCropsStart
         /\ isSubmitting' = "refreshing"
         /\ unhandled' = unhandled
    ELSE /\ cropToast' = "Could not add your crop."
         /\ isSubmitting' = "no"
         /\ UNCHANGED <<addCropForm, isAddingCrop, loadingCrops, unhandled>>

\* as AddCropRejected, with the form closed by the catch block
AddCropRejectedClosing ==
    /\ cropToast' = "Could not add your crop."
    /\ isSubmitting' = "no"
    /\ isAddingCrop' = FALSE
    /\ UNCHANGED <<addCropForm, loadingCrops, unhandled>>

\* onAddCropSubmit after addCurrentCrop rejected: catch
AddCropRejected ==
    /\ cropToast' = "Could not add your crop."
    /\ isSubmitting' = "no"
    /\ UNCHANGED <<addCropForm, isAddingCrop, loadingCrops, unhandled>>

\* the addCurrentCrop call settles: a new record and its id, no id, or a failure
AddCropSettles ==
    /\ isSubmitting = "adding"
    /\ \/ /\ store' = store \cup {Cardinality(store) + 1}
          /\ AddCropResolved(Cardinality(store) + 1)
       \/ /\ store' = store
          /\ AddCropResolved(EmptyId)
       \/ /\ store' = store
          /\ AddCropRejected
    /\ CropIdle
    /\ UNCHANGED <<chatVars, marketVars, flowVars, mounted, directCalls, crops, selectedCropId, query,
                   yield, mountFetch>>

\* Add New Crop and the form's Cancel: setIsAddingCrop
SetIsAddingCrop ==
    /\ mounted = "crop" /\ DialogModal
    /\ isAddingCrop' = ~isAddingCrop
    /\ CropIdle
    /\ UNCHANGED <<chatVars, marketVars, flowVars, mounted, directCalls, unhandled, crops, loadingCrops,
                   selectedCropId, query, yield, addCropForm, isSubmitting, store,
                   mountFetch, cropToast>>

\* the user edits a form: the crop Select, the question, the yield, the add-crop fields
EditForm ==
    /\ mounted = "crop"
    /\ \/ /\ QueryViewActive /\ ~loadingCrops
          /\ \E id \in SeqSet(crops) : selectedCropId' = id /\ id # selectedCropId
          /\ UNCHANGED <<query, yield, addCropForm>>
       \/ /\ QueryViewActive
          /\ \E q \in QueryInputs : query' = q /\ q # query
          /\ UNCHANGED <<selectedCropId, yield, addCropForm>>
       \/ /\ dialogOpen
          /\ \E y \in YieldInputs : yield' = y /\ y # yield
          /\ UNCHANGED <<selectedCropId, query, addCropForm>>
       \/ /\ isAddingCrop
          /\ \E v \in CropForms : addCropForm' = v /\ v # addCropForm
          /\ UNCHANGED <<selectedCropId, query, yield>>
    /\ CropIdle
    /\ UNCHANGED <<chatVars, marketVars, flowVars, mounted, directCalls, unhandled, isAddingCrop, crops,
                   loadingCrops, isSubmitting, store, mountFetch, cropToast>>

CropInit ==
    /\ isAddingCrop = FALSE
    /\ crops = <<>>
    /\ loadingCrops = TRUE
    /\ loadingResponse = FALSE
    /\ agentResponse = NoResult
    /\ marketAnalysisResult = NoResult
    /\ postHarvestResult = NoResult
    /\ selectedCropId = EmptyId
    /\ query = <<>>
    /\ queryError = FALSE
    /\ yield = <<>>
    /\ addCropForm = DefaultCropForm
    /\ isSubmitting = "no"
    /\ dialogOpen = FALSE
    /\ store \in IF mounted = "crop" THEN { 1 .. n : n \in 0 .. MaxCrops - 1 } ELSE { {} }
    /\ mountFetch = (mounted = "crop")
    /\ flowCalls = <<>>
    /\ cropToast = ""
    /\ lastResolved = <<>>
    /\ overtaken = FALSE
    /\ directCalls = 0

\* ------------------------------------------------------------------ market
MarketQueries == { <<>>, <<"p">>, <<"p", "?">> }
ToolReplies == {"upward", "stable", "malformed"}

\* MarketAnalysisInputSchema, of the form's resolver: the question is required
MarketAnalysisInputSchema(values) == Len(values.query) >= 1

\* the marketAnalysis flow returns a reply that passes its output schema
MarketOutputValid(reply) == reply # "malformed"

\* as OnSubmit, without setAnalysis(null)
OnSubmitKeepsAnalysis ==
    /\ marketAccepted < MaxSubmits
    /\ marketLoading' = TRUE
    /\ analysis' = analysis
    /\ marketCall' = marketCall + 1
    /\ marketAccepted' = marketAccepted + 1
    /\ marketIssued' = marketIssued + 1
    /\ UNCHANGED <<marketToasts, marketSettled>>

\* onSubmit up to its await
OnSubmit ==
    /\ marketAccepted < MaxSubmits
    /\ marketLoading' = TRUE
    /\ analysis' = NoResult
    /\ marketCall' = marketCall + 1
    /\ marketAccepted' = marketAccepted + 1
    /\ marketIssued' = marketIssued + 1
    /\ UNCHANGED <<marketToasts, marketSettled>>

\* the form's submit button, disabled={loading}: form.handleSubmit(onSubmit)
GetAnalysisClick ==
    /\ mounted = "market"
    /\ ~marketLoading
    /\ MarketAnalysisInputSchema(marketForm)
    /\ OnSubmit
    /\ UNCHANGED <<chatVars, cropVars, flowVars, mounted, unhandled, marketForm>>

\* onSubmit after marketAnalysis resolved, then finally
OnSubmitResolved(result) ==
    /\ analysis' = <<result>>
    /\ marketLoading' = FALSE
    /\ marketSettled' = <<result>>
    /\ marketCall' = marketCall - 1
    /\ UNCHANGED <<marketToasts, marketIssued, unhandled>>

\* as OnSubmitRejected, with the call made again from the catch block
OnSubmitRejectedRetry ==
    /\ marketToasts' = marketToasts + 1
    /\ marketLoading' = TRUE
    /\ marketSettled' = <<"rejected">>
    /\ marketCall' = marketCall
    /\ marketIssued' = marketIssued + 1
    /\ UNCHANGED <<analysis, unhandled>>

\* onSubmit after marketAnalysis rejected: catch, then finally
OnSubmitRejected ==
    /\ marketToasts' = marketToasts + 1
    /\ marketLoading' = FALSE
    /\ marketSettled' = <<"rejected">>
    /\ marketCall' = marketCall - 1
    /\ UNCHANGED <<analysis, marketIssued, unhandled>>

\* the pending marketAnalysis call settles
MarketSettles ==
    /\ marketCall > 0
    /\ \/ \E reply \in ToolReplies :
            IF MarketOutputValid(reply) THEN OnSubmitResolved(reply) ELSE OnSubmitRejected
       \/ OnSubmitRejected
    /\ UNCHANGED <<chatVars, cropVars, flowVars, mounted, marketForm, marketAccepted>>

\* typing or dictating the question: form.setValue('query', t)
SetMarketQuery ==
    /\ mounted = "market"
    /\ \E q \in MarketQueries :
        /\ q # marketForm.query
        /\ marketForm' = [marketForm EXCEPT !.query = q]
    /\ UNCHANGED <<chatVars, cropVars, flowVars, mounted, unhandled, analysis,
                   marketLoading, marketCall, marketToasts, marketAccepted, marketIssued,
                   marketSettled>>

MarketInit ==
    /\ analysis = NoResult
    /\ marketLoading = FALSE
    /\ marketForm = [query |-> <<>>]
    /\ marketCall = 0
    /\ marketToasts = 0
    /\ marketAccepted = 0
    /\ marketIssued = 0
    /\ marketSettled = <<>>

ChatInit ==
    /\ messages = <<>>
    /\ input = <<>>
    /\ loading = FALSE
    /\ currentAudio = Null
    /\ isPlaying = FALSE
    /\ clipState = [c \in Clips |-> "none"]
    /\ events = <<>>
    /\ chatCall = <<>>
    /\ ttsSubmit = FALSE
    /\ ttsClick = 0

Init ==
    /\ mounted \in {"chat", "crop", "market", "flow"}
    /\ unhandled = 0
    /\ ChatInit
    /\ CropInit
    /\ MarketInit
    /\ FlowInit

Next ==
    \/ HandleSubmit
    \/ StartChatResolved
    \/ StartChatRejected
    \/ SpeakClick
    \/ TtsResolved
    \/ TtsRejected
    \/ StopClick
    \/ SetInput
    \/ ClipEnds
    \/ MediaEvent
    \/ AskAgentClick
    \/ MarketAnalysisClick
    \/ PostHarvestHelpClick
    \/ DialogCancel
    \/ GetAdviceClick
    \/ FlowSettles
    \/ FetchSettles
    \/ SaveCropClick
    \/ AddCropSettles
    \/ SetIsAddingCrop
    \/ EditForm
    \/ GetAnalysisClick
    \/ MarketSettles
    \/ SetMarketQuery
    \/ FlowInvoke
    \/ FlowReplied
    \/ FlowFailed

Spec == Init /\ [][Next]_vars

\* CurrentCropAgent with its three handlers called as functions, whatever the
\* buttons' disabled state: the handlers themselves do not read loadingResponse.
\* The handlers run MaxDirect times at most, MaxInFlight of them at a time.
CallOnQuerySubmit ==
    /\ mounted = "crop" /\ Len(flowCalls) < MaxInFlight /\ directCalls < MaxDirect
    /\ OnQuerySubmit
    /\ dialogOpen' = dialogOpen
    /\ directCalls' = directCalls + 1
    /\ CropFrame

CallHandleMarketAnalysis ==
    /\ mounted = "crop" /\ Len(flowCalls) < MaxInFlight /\ directCalls < MaxDirect
    /\ HandleMarketAnalysis
    /\ dialogOpen' = dialogOpen
    /\ directCalls' = directCalls + 1
    /\ CropFrame

CallHandlePostHarvestHelp ==
    /\ mounted = "crop" /\ Len(flowCalls) < MaxInFlight /\ directCalls < MaxDirect
    /\ PostHarvestYieldSchema(yield)
    /\ HandlePostHarvestHelp
    /\ dialogOpen' = dialogOpen
    /\ directCalls' = directCalls + 1
    /\ CropFrame

NextHandlers ==
    \/ CallOnQuerySubmit
    \/ CallHandleMarketAnalysis
    \/ CallHandlePostHarvestHelp
    \/ PostHarvestHelpClick
    \/ DialogCancel
    \/ FlowSettles
    \/ FetchSettles
    \/ SaveCropClick
    \/ AddCropSettles
    \/ SetIsAddingCrop
    \/ EditForm

SpecHandlers == Init /\ [][NextHandlers]_vars

\* The rendered controls and, besides, the three handlers called as functions
\* when getSelectedCrop finds no crop: the buttons are disabled while the crops
\* are empty, and a fetch always selects one of the crops it sets.
CallWithoutCrop ==
    /\ mounted = "crop"
    /\ GetSelectedCrop = EmptyId
    /\ \/ OnQuerySubmit
       \/ HandleMarketAnalysis
       \/ HandlePostHarvestHelp
    /\ dialogOpen' = dialogOpen
    /\ directCalls' = directCalls
    /\ CropFrame

NextUnselected ==
    \/ Next
    \/ CallWithoutCrop

SpecUnselected == Init /\ [][NextUnselected]_vars

\* Every remote call eventually resolves or rejects: the pending startChat call,
\* the textToSpeech call handleSubmit awaits, the flow calls, the crop store's
\* calls and the market analysis call.
StartChatSettles == StartChatResolved \/ StartChatRejected

TtsSubmitSettles == ttsSubmit /\ (TtsResolved \/ TtsRejected) /\ ~ttsSubmit'

Fairness ==
    /\ WF_vars(StartChatSettles)
    /\ WF_vars(TtsSubmitSettles)
    /\ WF_vars(FlowSettles)
    /\ WF_vars(FetchSettles)
    /\ WF_vars(AddCropSettles)
    /\ WF_vars(MarketSettles)

SpecLive == Init /\ [][Next]_vars /\ Fairness

\* ------------------------------------------------------------------ claims

\* C1: in the chat, for every interleaving of speak() calls and text-to-speech
\* resolutions, at most one audio clip is playing at any time.
C1_AtMostOneClipPlaying == Cardinality(Playing) <= 1

\* C2: after two analysis calls of CurrentCropAgent resolved out of order, the
\* UI shows the result of the call that resolved last, and only that result.
Shown == <<agentResponse, marketAnalysisResult, postHarvestResult>>
OnlyShown(result) ==
    /\ agentResponse = IF result.kind = "agent" THEN <<result>> ELSE NoResult
    /\ marketAnalysisResult = IF result.kind = "market" THEN <<result>> ELSE NoResult
    /\ postHarvestResult = IF result.kind = "postHarvest" THEN <<result>> ELSE NoResult
C3_HistoryIsPriorMessages ==
    chatCall # <<>> =>
        /\ chatCall[1].history = SubSeq(messages, 1, Len(messages) - 1)
        /\ messages[Len(messages)] = Message("user", chatCall[1].query)
C3_Witness ==
    /\ chatCall # <<>>
    /\ Len(chatCall[1].history) = 2
    /\ chatCall[1].history[2] = Message("model", ApologyText)

\* C4: a post-harvest flow input whose crop context lacks a required field
\* ends in a validation error, and no endpoint call is issued for it.
LacksRequired(in) == \E k \in RequiredCropKeys : in.cropContext[k] = "missing"
C4_MissingFieldFailsBeforeRemote ==
    /\ [](flowInput # <<>> /\ LacksRequired(flowInput[1])
            => flowPhase = "done" /\ flowOutcome = <<"ValidationError">>)
    /\ [][remoteCalls' # remoteCalls => ~LacksRequired(flowInput'[1])]_vars
C4_Witness ==
    /\ flowInput # <<>>
    /\ LacksRequired(flowInput[1])
    /\ flowOutcome = <<"ValidationError">>
    /\ remoteCalls = 1

\* C5: for a valid crop context and a non-empty yield, a reply the output
\* schema accepts has exactly the eight advice fields, each a non-empty string.
C5_AcceptedAdviceIsPopulated ==
    (/\ flowOutcome # <<>>
     /\ flowOutcome[1] = "ok"
     /\ flowInput[1].cropContext = ValidCrop
     /\ flowInput[1].estimatedYield = "text")
        => /\ DOMAIN flowOutcome[2] = AdviceKeys
           /\ \A k \in AdviceKeys : flowOutcome[2][k] = "text"

\* C6: in CurrentCropAgent at most one flow call is in flight at any time.
C6_AtMostOneFlowCall == Len(flowCalls) <= 1
C6_Witness ==
    /\ Len(flowCalls) = 1
    /\ flowCalls[1].kind = "postHarvest"
    /\ cropToast = "Could not fetch market analysis."
    /\ loadingResponse

\* C7: a result slot that is not null holds a response of its flow's output
\* shape, and after a failed call nothing is shown.
IsAdvice(body) == \A k \in AdviceKeys : k \in DOMAIN body /\ body[k] \in {"empty", "text"}
C7_ShownResultsAreValid ==
    /\ agentResponse # NoResult => agentResponse[1].body = "advice"
    /\ marketAnalysisResult # NoResult => marketAnalysisResult[1].body = "analysis"
    /\ postHarvestResult # NoResult => IsAdvice(postHarvestResult[1].body)
    /\ analysis # NoResult => analysis[1] \in {"upward", "stable"}
    /\ (flowCalls = <<>> /\ lastResolved = <<>>) => Shown = <<NoResult, NoResult, NoResult>>
    /\ (marketCall = 0 /\ marketSettled = <<"rejected">>) => analysis = NoResult
C7_Witness ==
    /\ postHarvestResult # NoResult
    /\ postHarvestResult[1].body["wasteManagement"] = "empty"
    /\ cropToast = "Could not fetch post-harvest advice."

\* C8: MarketAnalysisTool moves idle -> submitting -> success | error: loading
\* implies a null analysis, and loading, analysis and the toasts change only by
\* a submit, a resolved call (analysis is the response) or a rejected call
\* (analysis null, one toast).
C8_Submit ==
    /\ ~marketLoading /\ marketLoading'
    /\ analysis' = NoResult
    /\ marketToasts' = marketToasts
C8_Success ==
    /\ marketLoading /\ ~marketLoading'
    /\ marketSettled' # <<"rejected">>
    /\ analysis' = marketSettled'
    /\ marketToasts' = marketToasts
C8_Error ==
    /\ marketLoading /\ ~marketLoading'
    /\ marketSettled' = <<"rejected">>
    /\ analysis' = NoResult
    /\ marketToasts' = marketToasts + 1
C8_StateMachine ==
    /\ [](marketLoading => analysis = NoResult)
    /\ [][<<marketLoading, analysis, marketToasts>>' # <<marketLoading, analysis, marketToasts>>
            => C8_Submit \/ C8_Success \/ C8_Error]_vars
C8_Witness ==
    /\ marketToasts = 1
    /\ ~marketLoading
    /\ analysis # NoResult

\* C9: no rejection of a remote call leaves its handler, and a component with
\* no call pending is not loading.
C9_FailuresCaught ==
    /\ unhandled = 0
    /\ (chatCall = <<>> /\ ~ttsSubmit) => ~loading
    /\ flowCalls = <<>> => ~loadingResponse
    /\ (mounted = "crop" /\ ~mountFetch /\ isSubmitting # "refreshing") => ~loadingCrops
    /\ marketCall = 0 => ~marketLoading
C9_Witness ==
    /\ Len(messages) = 2
    /\ messages[2] = Message("model", ApologyText)
    /\ ~loading

\* C10: every accepted submission issues exactly one flow call. In
\* CurrentCropAgent a submission is accepted in the step that sets
\* loadingResponse, and that step and no other adds one call; in
\* MarketAnalysisTool the calls issued equal the submissions accepted.
C10_OneCallPerSubmission ==
    /\ [](/\ marketIssued = marketAccepted
          /\ marketCall <= marketIssued)
    /\ [][/\ (~loadingResponse /\ loadingResponse') <=> Len(flowCalls') = Len(flowCalls) + 1
          /\ Len(flowCalls') <= Len(flowCalls) + 1]_vars
C10_Witness ==
    /\ marketAccepted = 2
    /\ marketSettled = <<"rejected">>
    /\ marketCall = 0
    /\ marketToasts = 2

\* C11: the chat message sequence is append-only: every step leaves the
\* previous sequence as a prefix of the new one.
IsPrefix(p, q) == Len(p) <= Len(q) /\ SubSeq(q, 1, Len(p)) = p
C11_MessagesAppendOnly == [][IsPrefix(messages, messages')]_vars
C11_Witness ==
    /\ Len(messages) = 4
    /\ messages[4] = Message("model", ApologyText)

\* C15: while loading is true, which covers the pending startChat call and the
\* pending text-to-speech call of the reply, or while the input is blank, no
\* step appends a user message or issues a startChat call; at most one
\* startChat call is in flight.
C15_UserMessageAppended ==
    /\ Len(messages') = Len(messages) + 1
    /\ messages'[Len(messages')].role = "user"
C15_SubmitBlockedWhileLoading ==
    /\ [](/\ Len(chatCall) <= 1
          /\ (chatCall # <<>> \/ ttsSubmit) => loading)
    /\ [][HandleSubmitReturns => /\ ~C15_UserMessageAppended
                                 /\ Len(chatCall') <= Len(chatCall)]_vars
C15_Witness ==
    /\ loading
    /\ ttsSubmit
    /\ Trim(input) # <<>>
    /\ Len(messages) = 2

\* C18: chat messages alternate user, model, user, model, ... from a user
\* message, and the sequence has even length whenever loading is false.
C18_MessagesAlternate ==
    /\ \A i \in 1 .. Len(messages) :
          messages[i].role = IF i % 2 = 1 THEN "user" ELSE "model"
    /\ ~loading => Len(messages) % 2 = 0
C18_Witness ==
    /\ Len(messages) = 4
    /\ ~loading
    /\ messages[2] = Message("model", ApologyText)
    /\ messages[4] = Message("model", <<"r">>)

\* C19: once the media events of the Audio elements have been handled, a
\* playing clip is the one currentAudio refers to and isPlaying is true.
C19_PlayingClipIsCurrent ==
    events = <<>> => \A c \in Playing : isPlaying /\ currentAudio = c

\* C12: no user action cancels a pending flow call: the only step that takes a
\* call from the pending ones is its settling, which clears loadingResponse
\* and either writes the response to the slot of the call's action, for the
\* crop the call was started with, or shows that action's failure toast.
C12_SlotAfter(kind) ==
    CASE kind = "agent" -> agentResponse'
      [] kind = "market" -> marketAnalysisResult'
      [] kind = "postHarvest" -> postHarvestResult'
C12_Settled(call) ==
    /\ ~loadingResponse'
    /\ \/ /\ C12_SlotAfter(call.kind) # NoResult
          /\ C12_SlotAfter(call.kind)[1].kind = call.kind
          /\ C12_SlotAfter(call.kind)[1].crop = call.crop
       \/ /\ cropToast' = FailureToast(call.kind)
          /\ Shown' = Shown
C12_NoCancellation ==
    [][(flowCalls # <<>> /\ flowCalls' # flowCalls)
          => /\ flowCalls' = Tail(flowCalls)
             /\ C12_Settled(flowCalls[1])]_vars
C12_Witness ==
    /\ marketAnalysisResult # NoResult
    /\ marketAnalysisResult[1].crop # selectedCropId
    /\ isAddingCrop

\* C13: the step that ends a pending addCurrentCrop call either, with a new
\* record, shows the success toast, resets and closes the form and starts the
\* re-fetch of the crops, or, with no new record, shows the error toast and
\* leaves the form, its values, the crops and the selected crop as they were.
C13_AddCropOutcomes ==
    [][(isSubmitting = "adding" /\ isSubmitting' # "adding")
          => \/ /\ store' # store
                /\ isSubmitting' = "refreshing"
                /\ cropToast' = "Crop added successfully!"
                /\ addCropForm' = DefaultCropForm
                /\ ~isAddingCrop'
                /\ loadingCrops'
             \/ /\ store' = store
                /\ isSubmitting' = "no"
                /\ cropToast' = "Could not add your crop."
                /\ UNCHANGED <<addCropForm, isAddingCrop, crops, selectedCropId,
                               loadingCrops>>]_vars
C13_Witness ==
    /\ cropToast = "Could not add your crop."
    /\ isSubmitting = "no"
    /\ isAddingCrop
    /\ addCropForm = FilledCropForm

\* C14: with no selected crop found in the crops no step issues a flow call,
\* with a missing or too short question no step issues the agent's call, and
\* the step that reports either leaves the pending calls, loadingResponse and
\* the three result slots as they were.
C14_QueryInvalid == query = <<>> \/ Len(Trim(query)) < MinQueryLen
C14_Reported ==
    \/ cropToast' = "Please select a crop first." /\ cropToast' # cropToast
    \/ queryError' /\ ~queryError
C14_ValidationBlocks ==
    [][/\ GetSelectedCrop = EmptyId => Len(flowCalls') <= Len(flowCalls)
       /\ C14_QueryInvalid => ~(/\ Len(flowCalls') > Len(flowCalls)
                                /\ flowCalls'[Len(flowCalls')].kind = "agent")
       /\ C14_Reported => UNCHANGED <<flowCalls, loadingResponse, agentResponse,
                                      marketAnalysisResult, postHarvestResult>>]_vars
C14_Witness ==
    /\ queryError
    /\ marketAnalysisResult # NoResult
    /\ ~loadingResponse
    /\ cropToast = "Please select a crop first."

\* C17: at most one of the three result slots is not null, and all three are
\* null while loadingResponse is true.
C17_AtMostOneResultShown ==
    /\ Cardinality({ i \in 1 .. 3 : Shown[i] # NoResult }) <= 1
    /\ loadingResponse => Shown = <<NoResult, NoResult, NoResult>>
C17_Witness ==
    /\ marketAnalysisResult # NoResult
    /\ dialogOpen

\* C20: loadingResponse is true exactly when a flow call is pending.
C20_LoadingIffCallPending == loadingResponse <=> flowCalls # <<>>
C20_Witness ==
    /\ loadingResponse
    /\ flowCalls # <<>>
    /\ isAddingCrop

\* C16: if every remote call eventually settles, each loading flag that is
\* true eventually becomes false again: loading of the chat and of the market
\* analysis tool, loadingResponse and loadingCrops of CurrentCropAgent.
C16_LoadingEnds ==
    /\ loading ~> ~loading
    /\ marketLoading ~> ~marketLoading
    /\ loadingResponse ~> ~loadingResponse
    /\ (mounted = "crop" /\ loadingCrops) ~> ~loadingCrops
C16_Witness ==
    /\ ~loadingResponse
    /\ flowCalls = <<>>
    /\ postHarvestResult = NoResult
    /\ cropToast = FailureToast("postHarvest")

\* C21: when no flow call is pending, a result that is shown was computed for
\* the crop that is selected in the crop selector.
C21_ShownResultForSelectedCrop ==
    flowCalls = <<>> =>
        \A i \in 1 .. 3 : Shown[i] # NoResult => Shown[i][1].crop = selectedCropId


\* C22: when the text-to-speech call of a submitted message ends in a failure or
\* with an empty audio result, so that no audio element is created, the message
\* sequence is left as it was (the reply stays, no apology is appended), the
\* audio state does not change and loading is false afterwards.
C22_TtsFailureKeepsReply ==
    [][(ttsSubmit /\ ~ttsSubmit' /\ ClipsMade' = ClipsMade) =>
          /\ messages' = messages
          /\ messages[Len(messages)].role = "model"
          /\ messages[Len(messages)].content # ApologyText
          /\ ~loading'
          /\ UNCHANGED <<currentAudio, isPlaying, clipState, events>>]_vars

C22_Witness ==
    /\ Len(messages) = 2
    /\ messages[2].role = "model"
    /\ Trim(messages[2].content) # <<>>
    /\ messages[2].content # ApologyText
    /\ ~loading /\ ~ttsSubmit /\ chatCall = <<>>
    /\ ttsClick = 0
    /\ ClipsMade = {}

\* a getAllCurrentCrops call settles in this step
C23_FetchSettled ==
    \/ mountFetch /\ ~mountFetch'
    \/ isSubmitting = "refreshing" /\ isSubmitting' = "no"

\* C23: in every state selectedCropId is empty or the id of a crop of the crops
\* list; a fetch that succeeds makes crops the fetched list and selectedCropId the
\* id of its first crop, or empty for an empty list, whatever was selected before;
\* a fetch that fails reports the load error and leaves crops and selectedCropId
\* as they were.
C23_SelectionFollowsFetch ==
    /\ [](selectedCropId = EmptyId \/ selectedCropId \in SeqSet(crops))
    /\ [][C23_FetchSettled =>
             \/ /\ crops' \in Perms(store)
                /\ selectedCropId' = IF crops' = <<>> THEN EmptyId ELSE crops'[1]
                /\ cropToast' = cropToast
             \/ /\ cropToast' = "Could not load your crops."
                /\ UNCHANGED <<crops, selectedCropId>>]_vars

C23_Witness ==
    /\ Len(crops) = 2
    /\ crops[1] = 2
    /\ selectedCropId = 2
    /\ cropToast = "Crop added successfully!"
    /\ isSubmitting = "no" /\ ~mountFetch /\ ~loadingCrops

\* C24: a successful addCurrentCrop shows the success toast, resets and closes
\* the form and awaits the refresh; when that refresh fails the only error shown
\* is "Could not load your crops.", never "Could not add your crop.", and the
\* crops list, the selection and the add-crop form stay as they were.
C24_RefreshFailureAfterAdd ==
    /\ [][(isSubmitting = "adding" /\ isSubmitting' = "refreshing") =>
             /\ cropToast' = "Crop added successfully!"
             /\ addCropForm' = DefaultCropForm
             /\ ~isAddingCrop']_vars
    /\ [](isSubmitting = "refreshing" => cropToast # "Could not add your crop.")
    /\ [][(isSubmitting = "refreshing" /\ isSubmitting' = "no") =>
             /\ cropToast' \in {cropToast, "Could not load your crops."}
             /\ cropToast' # "Could not add your crop."
             /\ \/ crops' \in Perms(store)
                \/ /\ cropToast' = "Could not load your crops."
                   /\ UNCHANGED <<crops, selectedCropId, addCropForm, isAddingCrop>>]_vars

C24_Witness ==
    /\ cropToast = "Could not load your crops."
    /\ isSubmitting = "no" /\ ~mountFetch /\ ~loadingCrops
    /\ crops # <<>>
    /\ Cardinality(store) = Len(crops) + 1
    /\ ~isAddingCrop
    /\ addCropForm = DefaultCropForm
====
